---- MODULE Spec2Model ----
(***************************************************************************)
(* repocat: concatenate the selected text files of a source tree (a local *)
(* folder or a shallow clone of a GitHub repository) into one output file. *)
(* Strings are sequences of one-character strings.                         *)
(***************************************************************************)
EXTENDS Integers, Sequences, FiniteSets, TLC

\* ------------------------------------------------------------------ bounds
MaxFiles == 3      \* entries of the root directory
MaxLen == 4        \* length of a file content given to the normalizer
MaxPatterns == 2   \* patterns in an include or exclude list

\* ----------------------------------------------------------------- strings
GithubPrefix == <<"h","t","t","p","s",":","/","/","g","i","t","h","u","b",".","c","o","m">>

StartsWith(s, p) == Len(s) >= Len(p) /\ SubSeq(s, 1, Len(p)) = p

RemoteInput == GithubPrefix \o <<"/","u","/","r">>
RootDir == <<"r">>
MissingDir == <<"m">>
TmpPath == <<"t">>
CwdOutput == <<"o",".","t","x","t">>
OutName == <<"o",".","t","x","t">>

Join(folder, name) == folder \o <<"/">> \o name

APy == <<"a",".","p","y">>
BPy == <<"b",".","p","y">>
CMd == <<"c",".","m","d">>
GPy == <<"g",".","p","y">>
HPy == <<".","h",".","p","y">>
ESub == <<"e">>

\* ------------------------------------------------------------ glob::Pattern
IsSeparator(c) == c = "/"

RECURSIVE StarRun(_, _)
StarRun(chars, i) ==
    IF i <= Len(chars) /\ chars[i] = "*" THEN 1 + StarRun(chars, i + 1) ELSE 0

PatternError == [ok |-> FALSE, tokens |-> <<>>]

\* Pattern::new.  The pattern alphabet of the model has no "]", so every "["
\* opens a range that is never closed.
RECURSIVE ParseFrom(_, _, _)
ParseFrom(chars, i, tokens) ==
    IF i > Len(chars) THEN [ok |-> TRUE, tokens |-> tokens]
    ELSE IF chars[i] = "?" THEN ParseFrom(chars, i + 1, Append(tokens, [t |-> "AnyChar"]))
    ELSE IF chars[i] = "*" THEN
        LET count == StarRun(chars, i)
            j == i + count
        IN  IF count > 2 THEN PatternError
            ELSE IF count = 2 THEN
                IF i = 1 \/ IsSeparator(chars[i - 1]) THEN
                    IF j <= Len(chars) /\ IsSeparator(chars[j])
                    THEN ParseFrom(chars, j + 1, Append(tokens, [t |-> "AnyRecursiveSequence"]))
                    ELSE IF j = Len(chars) + 1
                    THEN ParseFrom(chars, j, Append(tokens, [t |-> "AnyRecursiveSequence"]))
                    ELSE PatternError
                ELSE PatternError
            ELSE ParseFrom(chars, j, Append(tokens, [t |-> "AnySequence"]))
    ELSE IF chars[i] = "[" THEN PatternError
    ELSE ParseFrom(chars, i + 1, Append(tokens, [t |-> "Char", c |-> chars[i]]))

PatternNew(pattern) == ParseFrom(pattern, 1, <<>>)

\* Pattern::matches with the default MatchOptions (case sensitive, "*" and
\* "?" also match the separator and a leading dot).
RECURSIVE MatchesFrom(_, _, _, _)
MatchesFrom(tokens, ti, file, fi) ==
    IF ti > Len(tokens) THEN fi > Len(file)
    ELSE LET tok == tokens[ti] IN
        IF tok.t = "Char"
        THEN fi <= Len(file) /\ file[fi] = tok.c /\ MatchesFrom(tokens, ti + 1, file, fi + 1)
        ELSE IF tok.t = "AnyChar"
        THEN fi <= Len(file) /\ MatchesFrom(tokens, ti + 1, file, fi + 1)
        ELSE IF tok.t = "AnySequence"
        THEN \E k \in fi..(Len(file) + 1) : MatchesFrom(tokens, ti + 1, file, k)
        ELSE \/ MatchesFrom(tokens, ti + 1, file, fi)
             \/ \E k \in (fi + 1)..(Len(file) + 1) :
                    IsSeparator(file[k - 1]) /\ MatchesFrom(tokens, ti + 1, file, k)

Matches(tokens, path_str) == MatchesFrom(tokens, 1, path_str, 1)

\* Pattern::new(pattern).map(|p| p.matches(&path_str)).unwrap_or(false)
PatternMatchesOrFalse(pattern, path_str) ==
    LET p == PatternNew(pattern) IN IF p.ok THEN Matches(p.tokens, path_str) ELSE FALSE

\* iter().any(..) over a pattern list
RECURSIVE AnyPattern(_, _)
AnyPattern(patterns, path_str) ==
    IF patterns = <<>> THEN FALSE
    ELSE IF PatternMatchesOrFalse(Head(patterns), path_str) THEN TRUE
    ELSE AnyPattern(Tail(patterns), path_str)

ShouldProcessFileNoExclude(path, include, exclude) == AnyPattern(include, path)

should_process_file(path, include, exclude) ==
    LET included == AnyPattern(include, path)
        excluded == AnyPattern(exclude, path)
    IN  included /\ ~excluded

\* ------------------------------------------------------------ process_file
IsWhitespace(c) == c \in {" ", "\t", "\r", "\n", "\f"}

\* contents.split('\n')
RECURSIVE SplitFrom(_, _, _)
SplitFrom(s, i, cur) ==
    IF i > Len(s) THEN <<cur>>
    ELSE IF s[i] = "\n" THEN <<cur>> \o SplitFrom(s, i + 1, <<>>)
    ELSE SplitFrom(s, i + 1, Append(cur, s[i]))

SplitLines(s) == SplitFrom(s, 1, <<>>)

TrimEndOne(line) ==
    IF line # <<>> /\ IsWhitespace(line[Len(line)]) THEN SubSeq(line, 1, Len(line) - 1) ELSE line

\* str::trim_end
RECURSIVE trim_end(_)
trim_end(line) ==
    IF line # <<>> /\ IsWhitespace(line[Len(line)])
    THEN trim_end(SubSeq(line, 1, Len(line) - 1))
    ELSE line

\* .map(str::trim_end).filter(|s| !s.is_empty())
RECURSIVE ProcessedLines(_)
ProcessedLines(lines) ==
    IF lines = <<>> THEN <<>>
    ELSE LET l == trim_end(Head(lines)) IN
         IF l = <<>> THEN ProcessedLines(Tail(lines))
         ELSE <<l>> \o ProcessedLines(Tail(lines))

\* processed_lines.join("\n")
RECURSIVE JoinLines(_)
JoinLines(lines) ==
    IF lines = <<>> THEN <<>>
    ELSE IF Len(lines) = 1 THEN lines[1]
    ELSE lines[1] \o <<"\n">> \o JoinLines(Tail(lines))

NormalizeBody(contents) == JoinLines(ProcessedLines(SplitLines(contents)))

FormatBlockRaw(path, contents) == <<"*","*","*"," ">> \o path \o <<"\n">> \o contents

\* format!("*** {}\n{}", path, body)
FormatBlock(path, contents) == <<"*","*","*"," ">> \o path \o <<"\n">> \o NormalizeBody(contents)

\* ----------------------------------------------------------- the file tree
\* An entry of the root directory, in the order the walker's read_dir gives:
\* a regular file, a file whose open/read/UTF-8 decoding fails, or a place
\* where the walker reports an error.
EntryUniverse ==
    { [name |-> APy, kind |-> "file", contents |-> <<"x","\n","\n"," "," ","\n","y">>],
      [name |-> APy, kind |-> "file", contents |-> <<" ","\n","\t","\n">>],
      [name |-> BPy, kind |-> "file", contents |-> <<"z">>],
      [name |-> BPy, kind |-> "unreadable", contents |-> <<>>],
      [name |-> CMd, kind |-> "file", contents |-> <<"i","g","n","o","r","e","d">>],
      [name |-> GPy, kind |-> "file", contents |-> <<"q">>],
      [name |-> HPy, kind |-> "file", contents |-> <<"w">>],
      [name |-> ESub, kind |-> "walkerr", contents |-> <<>>] }

DistinctNames(t) == \A i, j \in 1..Len(t) : i # j => t[i].name # t[j].name

Trees == { t \in UNION { [1..n -> EntryUniverse] : n \in 0..MaxFiles } : DistinctNames(t) }

OldContents == <<"o","l","d">>

\* the tree's ignore files list g.py
IgnoredByRules(name) == name = GPy

\* WalkBuilder's default hidden(true): a name starting with a dot
IsHidden(name) == name # <<>> /\ name[1] = "."

\* ------------------------------------------------------------------- state
VARIABLES
    input, output, include_arg, exclude_arg,   \* Args
    gitFeature,                                \* cfg(feature = "git") of the build
    tree,                                      \* the source tree (local folder or remote repository)
    disk0,                                     \* the regular files on disk before the run
    pc, folder_path, dirs, disk, walk, pos,
    calls,                                     \* the acquisition calls made, in order
    reads,                                     \* paths given to process_file, in order
    written,                                   \* paths whose block was written, in order
    confirmed,                                 \* the final println! of main happened
    err,                                       \* what made the run fail, "none" otherwise
    selIn, selOut,                             \* should_process_file on its own
    normIn, normOut                            \* the normalization of process_file on its own

argVars == <<input, output, include_arg, exclude_arg, gitFeature, tree, disk0>>
runVars == <<pc, folder_path, dirs, disk, walk, pos, calls, reads, written, confirmed, err>>
pureVars == <<selIn, selOut, normIn, normOut>>
vars == <<argVars, runVars, pureVars>>

None == [some |-> FALSE, v |-> <<>>]
Some(x) == [some |-> TRUE, v |-> x]

default_include ==
    << <<"*",".","t","o","m","l">>, <<"*",".","m","d">>, <<"*",".","p","y">>, <<"*",".","r","s">>,
       <<"*",".","c","p","p">>, <<"*",".","h">>, <<"*",".","h","p","p">>, <<"*",".","c">>,
       <<"*",".","r","s","t">>, <<"*",".","t","x","t">>, <<"*",".","c","u","h">>, <<"*",".","c","u">> >>

\* args.include.unwrap_or(default_include), args.exclude.unwrap_or_default()
include == IF include_arg.some THEN include_arg.v ELSE default_include
exclude == IF exclude_arg.some THEN exclude_arg.v ELSE <<>>

IsRemote == StartsWith(input, GithubPrefix)

StarPy == <<"*",".","p","y">>
Star == <<"*">>
StarBPy == <<"*","b",".","p","y">>
OpenBracket == <<"[">>
ThreeStars == <<"*","*","*">>

Configs ==
    { [inc |-> None, exc |-> None],
      [inc |-> Some(<<StarPy>>), exc |-> None],
      [inc |-> Some(<<OpenBracket, StarPy>>), exc |-> Some(<<ThreeStars>>)],
      [inc |-> Some(<<Star>>), exc |-> Some(<<StarBPy>>)] }

\* the files a tree puts under a folder
RECURSIVE DiskOf(_, _)
DiskOf(folder, t) ==
    IF t = <<>> THEN <<>>
    ELSE IF Head(t).kind = "walkerr" THEN DiskOf(folder, Tail(t))
    ELSE (Join(folder, Head(t).name) :> Head(t).contents) @@ DiskOf(folder, Tail(t))

IdlePure ==
    /\ selIn = [path |-> <<>>, include |-> <<>>, exclude |-> <<>>]
    /\ selOut = <<>>
    /\ normIn = <<>>
    /\ normOut = <<>>

InitRun ==
    /\ pc = "main"
    /\ folder_path = <<>>
    /\ walk = <<>>
    /\ pos = 0
    /\ calls = <<>>
    /\ reads = <<>>
    /\ written = <<>>
    /\ confirmed = FALSE
    /\ err = "none"

Init ==
    /\ \E c \in Configs : include_arg = c.inc /\ exclude_arg = c.exc
    /\ \E pre \in BOOLEAN :
        \/ /\ input = RemoteInput
           /\ gitFeature \in BOOLEAN
           /\ tree \in Trees
           /\ output = CwdOutput
           /\ dirs = {RootDir}
           /\ disk0 = IF pre THEN output :> OldContents ELSE <<>>
        \/ /\ input = RootDir
           /\ gitFeature = TRUE      \* only a remote run depends on the feature
           /\ tree \in Trees
           /\ output \in {CwdOutput, Join(RootDir, OutName)}
           /\ dirs = {RootDir}
           /\ disk0 = (IF pre THEN output :> OldContents ELSE <<>>) @@ DiskOf(RootDir, tree)
        \/ /\ input = MissingDir
           /\ gitFeature = TRUE
           /\ tree = <<>>
           /\ output = CwdOutput
           /\ dirs = {RootDir}
           /\ disk0 = IF pre THEN output :> OldContents ELSE <<>>
    /\ disk = disk0
    /\ InitRun
    /\ IdlePure

\* ------------------------------------------------------------------ walker
\* What WalkBuilder::new(folder).build() yields for a directory listing:
\* an error for a root that cannot be read, else the root itself and then the
\* entries that are neither hidden nor ignored, in listing order.
RECURSIVE WalkListing(_, _)
WalkListing(folder, listing) ==
    IF listing = <<>> THEN <<>>
    ELSE LET e == Head(listing)
             rest == WalkListing(folder, Tail(listing))
         IN  IF IsHidden(e.name) \/ IgnoredByRules(e.name) THEN rest
             ELSE IF e.kind = "walkerr"
             THEN <<[res |-> "err", path |-> Join(folder, e.name), is_file |-> FALSE, readable |-> FALSE]>> \o rest
             ELSE <<[res |-> "ok", path |-> Join(folder, e.name), is_file |-> TRUE,
                     readable |-> (e.kind = "file")]>> \o rest

WalkEntriesMissingIsEmpty(folder, exists, listing) ==
    IF ~exists THEN <<>>
    ELSE <<[res |-> "ok", path |-> folder, is_file |-> FALSE, readable |-> FALSE]>>
         \o WalkListing(folder, listing)

WalkEntries(folder, exists, listing) ==
    IF ~exists
    THEN <<[res |-> "err", path |-> folder, is_file |-> FALSE, readable |-> FALSE]>>
    ELSE <<[res |-> "ok", path |-> folder, is_file |-> FALSE, readable |-> FALSE]>>
         \o WalkListing(folder, listing)

InsertAt(seq, i, e) == SubSeq(seq, 1, i) \o <<e>> \o SubSeq(seq, i + 1, Len(seq))

OutputEntry == [name |-> OutName, kind |-> "file", contents |-> <<>>]

\* ------------------------------------------------------------------- exits
UnderTmp(p) == StartsWith(p, TmpPath \o <<"/">>)

Restrict(d, keep) == [p \in keep |-> d[p]]

TempDirKept(ds) == ds

\* Drop of temp_dir at the end of process_github_repo: the directories left
TempDirDropped(ds) == IF IsRemote THEN ds \ {TmpPath} ELSE ds

\* ... and the files left
TempFilesDropped(d) ==
    IF IsRemote THEN Restrict(d, {p \in DOMAIN d : ~UnderTmp(p)}) ELSE d

\* The function returns to main with e; main prints the confirmation after Ok.
Exit(e, d) ==
    /\ pc' = "done"
    /\ err' = e
    /\ confirmed' = (e = "none")
    /\ dirs' = TempDirDropped(dirs)
    /\ disk' = TempFilesDropped(d)

Call(op, depth, res) == [op |-> op, depth |-> depth, res |-> res]

\* ------------------------------------------------------------------ actions
\* main: dispatch on the input
Main ==
    /\ pc = "main"
    /\ IF StartsWith(input, GithubPrefix)
       THEN pc' = "gh_tempdir" /\ folder_path' = folder_path
       ELSE pc' = "plf_create" /\ folder_path' = input
    /\ UNCHANGED <<argVars, dirs, disk, walk, pos, calls, reads, written, confirmed, err, pureVars>>

\* tempfile::tempdir()?
GhTempdir ==
    /\ pc = "gh_tempdir"
    /\ \/ /\ dirs' = dirs \cup {TmpPath}
          /\ calls' = Append(calls, Call("tempdir", 0, "ok"))
          /\ pc' = "gh_cli"
          /\ UNCHANGED <<disk, confirmed, err>>
       \/ /\ calls' = Append(calls, Call("tempdir", 0, "failed"))
          /\ Exit("tempdir", disk)
    /\ UNCHANGED <<argVars, folder_path, walk, pos, reads, written, pureVars>>

GhCliCloneRetry ==
    /\ pc = "gh_cli"
    /\ \E r \in {"ok", "spawn_failed", "nonzero"} :
        /\ calls' = Append(calls, Call("git_cli", 1, r))
        /\ IF r = "ok"
           THEN /\ disk' = disk @@ DiskOf(TmpPath, tree)
                /\ folder_path' = TmpPath
                /\ pc' = "plf_create"
           ELSE /\ pc' = IF Len(calls) < 3 THEN "gh_cli" ELSE "gh_fallback"
                /\ UNCHANGED <<disk, folder_path>>
    /\ UNCHANGED <<argVars, dirs, walk, pos, reads, written, confirmed, err, pureVars>>

\* Command::new("git").args(["clone", "--depth", "1", repo_url]).arg(repo_path).output()
GhCliClone ==
    /\ pc = "gh_cli"
    /\ \E r \in {"ok", "spawn_failed", "nonzero"} :
        /\ calls' = Append(calls, Call("git_cli", 1, r))
        /\ IF r = "ok"
           THEN /\ disk' = disk @@ DiskOf(TmpPath, tree)
                /\ folder_path' = TmpPath
                /\ pc' = "plf_create"
           ELSE /\ pc' = "gh_fallback"
                /\ UNCHANGED <<disk, folder_path>>
    /\ UNCHANGED <<argVars, dirs, walk, pos, reads, written, confirmed, err, pureVars>>

GhFallbackIgnoresError ==
    /\ pc = "gh_fallback"
    /\ IF gitFeature
       THEN \E r \in {"ok", "failed"} :
            /\ calls' = Append(calls, Call("git2_clone", 1, r))
            /\ disk' = IF r = "ok" THEN disk @@ DiskOf(TmpPath, tree) ELSE disk
            /\ folder_path' = TmpPath
            /\ pc' = "plf_create"
            /\ UNCHANGED <<dirs, confirmed, err>>
       ELSE /\ Exit("clone", disk)
            /\ UNCHANGED <<calls, folder_path>>
    /\ UNCHANGED <<argVars, walk, pos, reads, written, pureVars>>

\* the fallback arm: RepoBuilder with fetch depth 1 when the build has the
\* git feature, an error otherwise
GhFallback ==
    /\ pc = "gh_fallback"
    /\ IF gitFeature
       THEN \E r \in {"ok", "failed"} :
            /\ calls' = Append(calls, Call("git2_clone", 1, r))
            /\ IF r = "ok"
               THEN /\ disk' = disk @@ DiskOf(TmpPath, tree)
                    /\ folder_path' = TmpPath
                    /\ pc' = "plf_create"
                    /\ UNCHANGED <<dirs, confirmed, err>>
               ELSE /\ Exit("clone", disk)
                    /\ UNCHANGED folder_path
       ELSE /\ Exit("clone", disk)
            /\ UNCHANGED <<calls, folder_path>>
    /\ UNCHANGED <<argVars, walk, pos, reads, written, pureVars>>

\* File::create(output_file) and WalkBuilder::new(folder_path).build()
PlfCreate ==
    /\ pc = "plf_create"
    /\ \/ /\ disk' = (output :> <<>>) @@ disk
          /\ \E i \in 0..Len(tree) :
                walk' = WalkEntries(folder_path, folder_path \in dirs,
                            IF output = Join(folder_path, OutName)
                            THEN InsertAt(tree, i, OutputEntry) ELSE tree)
          /\ pos' = 1
          /\ pc' = "plf_walk"
          /\ UNCHANGED <<dirs, confirmed, err>>
       \/ /\ Exit("create", disk)
          /\ UNCHANGED <<walk, pos>>
    /\ UNCHANGED <<argVars, folder_path, calls, reads, written, pureVars>>

AtEntry == pc = "plf_walk" /\ pos <= Len(walk)

Selected(e) == e.res = "ok" /\ e.is_file /\ should_process_file(e.path, include, exclude)

\* the walker is exhausted: Ok(())
PlfEnd ==
    /\ pc = "plf_walk"
    /\ pos > Len(walk)
    /\ Exit("none", disk)
    /\ UNCHANGED <<argVars, folder_path, walk, pos, calls, reads, written, pureVars>>

\* let entry = result?;
PlfWalkErr ==
    /\ AtEntry
    /\ walk[pos].res = "err"
    /\ Exit("walk", disk)
    /\ UNCHANGED <<argVars, folder_path, walk, pos, calls, reads, written, pureVars>>

\* the if at the top of the loop body is false
PlfSkip ==
    /\ AtEntry
    /\ walk[pos].res = "ok"
    /\ ~Selected(walk[pos])
    /\ pos' = pos + 1
    /\ UNCHANGED <<argVars, pc, folder_path, dirs, disk, walk, calls, reads, written, confirmed, err, pureVars>>

PlfReadFailRollsBack ==
    /\ AtEntry
    /\ Selected(walk[pos])
    /\ ~walk[pos].readable
    /\ reads' = Append(reads, walk[pos].path)
    /\ Exit("read", Restrict(disk, DOMAIN disk \ {output}))
    /\ UNCHANGED <<argVars, folder_path, walk, pos, calls, written, pureVars>>

\* process_file(path) fails in open or read_to_string
PlfReadFail ==
    /\ AtEntry
    /\ Selected(walk[pos])
    /\ ~walk[pos].readable
    /\ reads' = Append(reads, walk[pos].path)
    /\ Exit("read", disk)
    /\ UNCHANGED <<argVars, folder_path, walk, pos, calls, written, pureVars>>

\* process_file(path) and writeln!(output, "{}", data)
PlfProcess ==
    /\ AtEntry
    /\ Selected(walk[pos])
    /\ walk[pos].readable
    /\ LET path == walk[pos].path
           data == FormatBlock(path, disk[path])
       IN  /\ reads' = Append(reads, path)
           /\ disk' = [disk EXCEPT ![output] = @ \o data \o <<"\n">>]
           /\ written' = Append(written, path)
    /\ pos' = pos + 1
    /\ UNCHANGED <<argVars, pc, folder_path, dirs, walk, calls, confirmed, err, pureVars>>

\* process_file(path) succeeds and writeln! fails: nothing of the block, or
\* all of it but the final newline, has reached the file
PlfWriteFail ==
    /\ AtEntry
    /\ Selected(walk[pos])
    /\ walk[pos].readable
    /\ LET path == walk[pos].path
           data == FormatBlock(path, disk[path])
       IN  /\ reads' = Append(reads, path)
           /\ \E part \in {<<>>, data} :
                Exit("write", [disk EXCEPT ![output] = @ \o part])
    /\ UNCHANGED <<argVars, folder_path, walk, pos, calls, written, pureVars>>

Next ==
    \/ Main
    \/ GhTempdir
    \/ GhCliClone
    \/ GhFallback
    \/ PlfCreate
    \/ PlfEnd
    \/ PlfWalkErr
    \/ PlfSkip
    \/ PlfReadFail
    \/ PlfProcess
    \/ PlfWriteFail

Spec == Init /\ [][Next]_vars

TypeOK ==
    /\ pc \in {"main", "gh_tempdir", "gh_cli", "gh_fallback", "plf_create", "plf_walk", "done"}
    /\ err \in {"none", "tempdir", "clone", "create", "walk", "read", "write"}
    /\ confirmed \in BOOLEAN
    /\ pos \in 0..(Len(walk) + 1)

\* ---------------------------------------- should_process_file on its own
StarStarMd == <<"*","*","/","*",".","m","d">>
QPy == <<"?",".","p","y">>

PatternUniverse == {StarPy, StarBPy, OpenBracket, ThreeStars, StarStarMd, QPy}

PatternLists == UNION { [1..n -> PatternUniverse] : n \in 0..MaxPatterns }

SelPaths == {APy, Join(RootDir, APy), Join(RootDir, BPy), Join(RootDir, CMd)}

IdleRun ==
    /\ input = <<>>
    /\ output = <<>>
    /\ include_arg = None
    /\ exclude_arg = None
    /\ gitFeature = TRUE
    /\ tree = <<>>
    /\ disk0 = <<>>
    /\ disk = <<>>
    /\ dirs = {}
    /\ pc = "idle"
    /\ folder_path = <<>>
    /\ walk = <<>>
    /\ pos = 0
    /\ calls = <<>>
    /\ reads = <<>>
    /\ written = <<>>
    /\ confirmed = FALSE
    /\ err = "none"

InitSelect ==
    /\ IdleRun
    /\ selIn \in [path : SelPaths, include : PatternLists, exclude : PatternLists]
    /\ selOut = <<>>
    /\ normIn = <<>>
    /\ normOut = <<>>

Select ==
    /\ selIn.path # <<>>
    /\ selOut = <<>>
    /\ selOut' = <<should_process_file(selIn.path, selIn.include, selIn.exclude)>>
    /\ UNCHANGED <<argVars, runVars, selIn, normIn, normOut>>

SpecSelect == InitSelect /\ [][Select]_vars

\* ------------------------------------------- the normalization on its own
NormChars == {"x", " ", "\n", "\t", "\r"}

NormInputs == UNION { [1..n -> NormChars] : n \in 0..MaxLen }

InitNormalize ==
    /\ IdleRun
    /\ selIn = [path |-> <<>>, include |-> <<>>, exclude |-> <<>>]
    /\ selOut = <<>>
    /\ normIn \in NormInputs
    /\ normOut = <<>>

NormalizeOnce ==
    /\ selIn.path = <<>>
    /\ normOut = <<>>
    /\ normOut' = <<NormalizeBody(normIn)>>
    /\ UNCHANGED <<argVars, runVars, selIn, selOut, normIn>>

NormalizeAgain ==
    /\ Len(normOut) = 1
    /\ normOut' = Append(normOut, NormalizeBody(normOut[1]))
    /\ UNCHANGED <<argVars, runVars, selIn, selOut, normIn>>

NextNormalize == NormalizeOnce \/ NormalizeAgain

SpecNormalize == InitNormalize /\ [][NextNormalize]_vars

\* ------------------------------------------------------------- properties
IsCloneCall(c) == c.op \in {"git_cli", "git2_clone"}
CloneCalls == SelectSeq(calls, IsCloneCall)
TempdirCreated == \E i \in 1..Len(calls) : calls[i] = Call("tempdir", 0, "ok")
PastClone == pc \in {"plf_create", "plf_walk", "done"}

\* the order of the attempts: the CLI first, the library only after a failed CLI,
\* both with depth 1, none twice
CloneOrder ==
    /\ Len(CloneCalls) <= 2
    /\ Len(CloneCalls) >= 1 => CloneCalls[1].op = "git_cli" /\ CloneCalls[1].depth = 1
    /\ Len(CloneCalls) = 2 =>
          /\ CloneCalls[1].res # "ok"
          /\ CloneCalls[2].op = "git2_clone"
          /\ CloneCalls[2].depth = 1

\* after a successful strategy the run is in process_local_folder, rooted at
\* the temporary directory
ContinuesAsLocal ==
    (IsRemote /\ pc \in {"plf_create", "plf_walk"}) =>
        /\ folder_path = TmpPath
        /\ CloneCalls # <<>>
        /\ CloneCalls[Len(CloneCalls)].res = "ok"

\* C1 as stated: in a remote run the git CLI clone (depth 1) is attempted first
\* and exactly once, the library clone (depth 1) exactly once whenever the CLI
\* clone failed and never otherwise, nothing is retried, and after a success
\* the run continues as a local run rooted at the temporary directory.
C1_AsStated ==
    /\ CloneOrder
    /\ (IsRemote /\ PastClone) =>
          /\ Len(CloneCalls) >= 1
          /\ CloneCalls[1].res # "ok" => Len(CloneCalls) = 2
    /\ ContinuesAsLocal

\* C1 amended: the same for a remote run whose temporary directory was created
\* and a build with the git feature; a build without the feature attempts no
\* library clone and fails the run after a failed CLI clone.
C1_CloneChain ==
    /\ CloneOrder
    /\ (IsRemote /\ PastClone /\ TempdirCreated) =>
          /\ Len(CloneCalls) >= 1
          /\ (CloneCalls[1].res # "ok" /\ gitFeature) => Len(CloneCalls) = 2
          /\ (CloneCalls[1].res # "ok" /\ ~gitFeature) =>
                Len(CloneCalls) = 1 /\ pc = "done" /\ err = "clone"
    /\ (IsRemote /\ PastClone /\ ~TempdirCreated) =>
          CloneCalls = <<>> /\ pc = "done" /\ err = "tempdir"
    /\ ContinuesAsLocal

C1_Witness ==
    /\ IsRemote /\ pc = "done" /\ err = "none"
    /\ Len(CloneCalls) = 2
    /\ CloneCalls[1].res = "nonzero" /\ CloneCalls[2].res = "ok"
    /\ written # <<>>

BothFailed ==
    /\ Len(CloneCalls) = 2
    /\ CloneCalls[1].res # "ok"
    /\ CloneCalls[2].res # "ok"

OutputUntouched ==
    /\ (output \in DOMAIN disk) = (output \in DOMAIN disk0)
    /\ output \in DOMAIN disk => disk[output] = disk0[output]

\* C2: when both clone strategies of a remote run fail, the run ends with the
\* clone error, no traversal starts, nothing is confirmed and the output file
\* is neither created nor truncated.
C2_BothFail ==
    (IsRemote /\ BothFailed) =>
        /\ pc = "done"
        /\ err = "clone"
        /\ ~confirmed
        /\ walk = <<>> /\ pos = 0 /\ reads = <<>> /\ written = <<>>
        /\ OutputUntouched

C2_Witness ==
    /\ IsRemote /\ BothFailed /\ pc = "done"
    /\ output \in DOMAIN disk0 /\ disk[output] = OldContents

\* C3: in every terminal state of a remote run the temporary directory and
\* everything under it is gone.
C3_TempRemoved ==
    (IsRemote /\ pc = "done") =>
        /\ TmpPath \notin dirs
        /\ \A p \in DOMAIN disk : ~UnderTmp(p)

C3_Witness ==
    /\ IsRemote /\ pc = "done" /\ TempdirCreated
    /\ err = "read" /\ written # <<>>

ClaimMatches(pattern, path) ==
    PatternNew(pattern).ok /\ Matches(PatternNew(pattern).tokens, path)

MatchesSome(patterns, path) == \E i \in 1..Len(patterns) : ClaimMatches(patterns[i], path)

\* C4: should_process_file selects a path iff some include pattern matches it
\* and no exclude pattern does; a path matched by both is rejected.
C4_Selection ==
    selOut # <<>> =>
        /\ selOut[1] = (MatchesSome(selIn.include, selIn.path) /\ ~MatchesSome(selIn.exclude, selIn.path))
        /\ (MatchesSome(selIn.include, selIn.path) /\ MatchesSome(selIn.exclude, selIn.path))
              => selOut[1] = FALSE

C4_Witness ==
    /\ selOut = <<FALSE>>
    /\ MatchesSome(selIn.include, selIn.path)
    /\ MatchesSome(selIn.exclude, selIn.path)

\* the regular files under the root once the output file is created
RegularFilesUnderRoot ==
    { Join(folder_path, tree[i].name) : i \in { j \in 1..Len(tree) : tree[j].kind # "walkerr" } }
    \cup (IF output = Join(folder_path, OutName) THEN {output} ELSE {})

NameOf(path) == SubSeq(path, Len(folder_path) + 2, Len(path))

TreeContents(path) ==
    (CHOOSE e \in {tree[i] : i \in 1..Len(tree)} : Join(folder_path, e.name) = path).contents

\* the blocks of the given files, each "*** <path>", newline, body, newline;
\* the output file itself, when it is one of them, is read as written so far
RECURSIVE BlocksOf(_, _)
BlocksOf(paths, acc) ==
    IF paths = <<>> THEN acc
    ELSE LET p == Head(paths)
             contents == IF p = output THEN acc ELSE TreeContents(p)
         IN  BlocksOf(Tail(paths),
                 acc \o <<"*","*","*"," ">> \o p \o <<"\n">> \o NormalizeBody(contents) \o <<"\n">>)

RECURSIVE PathsOf(_)
PathsOf(entries) == IF entries = <<>> THEN <<>> ELSE <<Head(entries).path>> \o PathsOf(Tail(entries))

NoDuplicates(seq) == \A i, j \in 1..Len(seq) : i # j => seq[i] # seq[j]

ScenarioTree ==
    << [name |-> APy, kind |-> "file", contents |-> <<"x","\n","\n"," "," ","\n","y">>],
       [name |-> BPy, kind |-> "file", contents |-> <<"z">>],
       [name |-> CMd, kind |-> "file", contents |-> <<"i","g","n","o","r","e","d">>] >>

IsScenario ==
    /\ input = RootDir /\ output = CwdOutput
    /\ tree = ScenarioTree
    /\ include_arg = Some(<<StarPy>>) /\ exclude_arg = None

ScenarioOutput ==
    <<"*","*","*"," ","r","/","a",".","p","y","\n","x","\n","y","\n",
      "*","*","*"," ","r","/","b",".","p","y","\n","z","\n">>

BlankOnlyBlocks ==
    \A i \in 1..Len(tree) :
        (tree[i].contents = <<" ","\n","\t","\n">>
            /\ \E k \in 1..Len(written) : written[k] = Join(folder_path, tree[i].name))
        => LET k == CHOOSE k \in 1..Len(written) : written[k] = Join(folder_path, tree[i].name)
               before == BlocksOf(SubSeq(written, 1, k - 1), <<>>)
               hdr == <<"*","*","*"," ">> \o written[k] \o <<"\n","\n">>
           IN  SubSeq(disk[output], 1, Len(before) + Len(hdr)) = before \o hdr

OutputShape(wanted) ==
    /\ NoDuplicates(written)
    /\ {written[i] : i \in 1..Len(written)} = wanted
    /\ written = PathsOf(SelectSeq(walk, Selected))
    /\ output \in DOMAIN disk
    /\ disk[output] = BlocksOf(written, <<>>)
    /\ BlankOnlyBlocks
    /\ IsScenario => disk[output] = ScenarioOutput

C6_Idempotent == Len(normOut) = 2 => normOut[2] = normOut[1]

C6_Witness ==
    /\ Len(normOut) = 2
    /\ normOut[1] # normIn
    /\ normOut[1] # <<>>

\* C7: a run that fails on a walker error or on reading a selected file prints
\* no confirmation and leaves in the output file exactly the complete blocks
\* of the selected files before the failure, in traversal order; nothing after
\* the failing entry is read or written.
C7_FailStops ==
    (pc = "done" /\ err \in {"walk", "read"}) =>
        /\ ~confirmed
        /\ pos \in 1..Len(walk)
        /\ written = PathsOf(SelectSeq(SubSeq(walk, 1, pos - 1), Selected))
        /\ reads = written \o (IF err = "read" THEN <<walk[pos].path>> ELSE <<>>)
        /\ output \in DOMAIN disk
        /\ disk[output] = BlocksOf(written, <<>>)

C7_Witness ==
    /\ pc = "done" /\ err = "read"
    /\ Len(written) >= 1
    /\ pos < Len(walk)

Malformed(pattern) == ~PatternNew(pattern).ok

HasMalformedPattern ==
    \/ \E i \in 1..Len(include) : Malformed(include[i])
    \/ \E i \in 1..Len(exclude) : Malformed(exclude[i])

\* C8 as stated: with a malformed include or exclude pattern the run ends with
\* a configuration error instead of selecting files: no block is written and
\* nothing is confirmed.
C8_AsStated == HasMalformedPattern => (written = <<>> /\ ~confirmed)

\* C9: a local input that does not exist fails the run: no confirmation, no
\* file selected, read or written as a block.
C9_MissingLocal ==
    (~IsRemote /\ input \notin dirs /\ pc = "done") =>
        /\ err # "none"
        /\ ~confirmed
        /\ reads = <<>>
        /\ written = <<>>

C9_Witness ==
    /\ input = MissingDir /\ pc = "done" /\ err = "walk"
    /\ output \in DOMAIN disk

\* C10 as stated: the run never reads its own output file and never writes a
\* block whose header is the output file's path.
C10_AsStated ==
    /\ \A i \in 1..Len(reads) : reads[i] # output
    /\ \A i \in 1..Len(written) : written[i] # output

====
